---------------------------- MODULE Spec2Model ----------------------------
(***************************************************************************)
(* Image allocation and pool consumption of ask-dar-zine.                  *)
(*                                                                         *)
(* image_allocator.py partitions the images generated today over four      *)
(* platform pools kept in image_allocation_state.json; the four posters    *)
(* (daily_instagram_poster.py, daily_twitter_poster.py,                    *)
(* daily_linkedin_poster.py, daily_patreon_poster.py) each take images     *)
(* from the front of their own pool and write the document back.           *)
(*                                                                         *)
(* Files are modelled by their content: a state file is absent,            *)
(* unreadable, not valid JSON, a JSON value that is not an object, or a    *)
(* JSON object (a function from key strings to values).  An image record   *)
(* is [path, date]; filename, style and size of a record are determined by *)
(* the file at that path and are not carried.  Time is a logical clock.    *)
(***************************************************************************)
EXTENDS Integers, Sequences, FiniteSets, TLC

VARIABLES
    today,          \* datetime.now().date(), as a day number
    now,            \* datetime.now(), as a logical clock
    images_dir,     \* the images/ tree: [exists, files, made]
    state_file,     \* image_allocation_state.json: [kind, doc]
    backup_file,    \* image_allocation_state.json.backup: [kind, doc]
    state,          \* the in-memory state dict of the process that ran last
    todays_images,  \* the list handed to allocate_images_to_pools, as shuffled
    selected,       \* the list returned by the consumer that ran last
    budget,         \* the daily budget the counts are computed for
    counts,         \* the dict returned by get_allocation_counts
    requested,      \* the count argument of the last consumer call
    last,           \* the last operation: [op, outcome, raised, loaded, posts,
                    \*   faults], faults being what failed in its environment
    trace,          \* the lists returned by the consumer calls of a scenario
    running         \* the runs in progress side by side: for each script its
                    \*   position, its state dict, and when it loaded and saved

vars == <<today, now, images_dir, state_file, backup_file, state,
          todays_images, selected, budget, counts, requested, last, trace,
          running>>

-----------------------------------------------------------------------------
(* Bounds of the model *)

MaxImages  == 2     \* image files ever generated in the system specification
MaxDay     == 2     \* calendar days
MaxTime    == 3     \* runs (ticks of the logical clock)
MaxShuffle == 4     \* lists up to this length are shuffled exhaustively
MaxBudget  == 120   \* largest daily budget the counts are computed for
MaxToday   == 11    \* longest list handed to allocate in the allocate specification
MaxPool    == 4     \* longest pool handed to a consumer in the consumer specification
MaxListing == 2     \* sets up to this size are listed in every order

MaxSlack   == 12    \* how far below USED_LIMIT the cleanup specification starts
MaxRestarts == 1    \* poster runs started again in the two-poster specification

-----------------------------------------------------------------------------
(* Program constants *)

DAILY_IMAGES_PER_DAY == 10

Platforms == <<"instagram", "twitter", "linkedin", "patreon">>

PlatformSet == {Platforms[i] : i \in 1..Len(Platforms)}

\* ALLOCATION_RATIO, in percent.  int(N * 0.30) and int(N * 0.20) in double
\* arithmetic equal (N * 30) \div 100 and (N * 20) \div 100 for every
\* 0 <= N < 100000 (checked by enumeration against the Python expression).
ALLOCATION_RATIO ==
    [instagram |-> 30, twitter |-> 30, linkedin |-> 20, patreon |-> 20]

pool_key(platform) ==
    CASE platform = "instagram" -> "instagram_pool"
      [] platform = "twitter"   -> "twitter_pool"
      [] platform = "linkedin"  -> "linkedin_pool"
      [] platform = "patreon"   -> "patreon_pool"

PoolKeys == {pool_key(p) : p \in PlatformSet}

required_keys == PoolKeys \cup {"used_images", "last_updated"}

-----------------------------------------------------------------------------
(* Sequences and sets *)

Range(s) == {s[i] : i \in 1..Len(s)}

Take(s, n) == SubSeq(s, 1, IF n < Len(s) THEN n ELSE Len(s))

Drop(s, n) == SubSeq(s, n + 1, Len(s))

\* s[a:b] of Python for 0 <= a <= b
Slice(s, a, b) ==
    SubSeq(s, a + 1, IF b < Len(s) THEN b ELSE Len(s))

RECURSIVE Perms(_)
Perms(S) ==
    IF S = {} THEN {<<>>}
    ELSE UNION {{<<x>> \o p : p \in Perms(S \ {x})} : x \in S}

RECURSIVE SumSeq(_)
SumSeq(s) == IF s = <<>> THEN 0 ELSE Head(s) + SumSeq(Tail(s))

Paths(pool) == {pool[i].path : i \in 1..Len(pool)}


-----------------------------------------------------------------------------
(* get_allocation_counts *)

floor_counts(N) ==
    [p \in PlatformSet |-> (N * ALLOCATION_RATIO[p]) \div 100]

total_of(c) == SumSeq([i \in 1..Len(Platforms) |-> c[Platforms[i]]])

\* max(counts, key=counts.get): the first key, in insertion order, that
\* holds the largest value
largest_platform(c) ==
    LET i == CHOOSE i \in 1..Len(Platforms) :
                 /\ \A j \in 1..Len(Platforms) : c[Platforms[j]] <= c[Platforms[i]]
                 /\ \A j \in 1..(i - 1) : c[Platforms[j]] < c[Platforms[i]]
    IN  Platforms[i]

\* get_allocation_counts without the adjustment of lines 103-107
get_allocation_counts_unadjusted(N) == floor_counts(N)

get_allocation_counts(N) ==
    LET c     == floor_counts(N)
        total == total_of(c)
    IN  IF total # N
        THEN [c EXCEPT ![largest_platform(c)] = @ + (N - total)]
        ELSE c

-----------------------------------------------------------------------------
(* Files *)

AbsentFile == [kind |-> "absent", doc |-> <<>>]

ObjectFile(d) == [kind |-> "object", doc |-> d]

\* A file left behind by a write that stopped half way
PartialFile == [kind |-> "invalid_json", doc |-> <<>>]

exists(file) == file.kind # "absent"

\* What open() followed by json.load() and the use of the value as a dict
\* raises on a file that exists
read_exception(file) ==
    CASE file.kind = "unreadable"   -> "OSError"
      [] file.kind = "invalid_json" -> "JSONDecodeError"
      [] file.kind = "non_object"   -> "TypeError"
      [] OTHER                      -> "none"

Exceptions == {"OSError", "JSONDecodeError", "TypeError"}

\* dict.get(key, default)
Get(d, key, default) == IF key \in DOMAIN d THEN d[key] ELSE default

\* d[key] = value
Put(d, key, value) ==
    [k \in DOMAIN d \cup {key} |-> IF k = key THEN value ELSE d[k]]

-----------------------------------------------------------------------------
(* image_allocator.py: the Allocation State Store *)

new_state(t) ==
    [instagram_pool |-> <<>>, twitter_pool |-> <<>>, linkedin_pool |-> <<>>,
     patreon_pool |-> <<>>, used_images |-> {}, last_updated |-> t]

\* validate_state without the loop of lines 122-125: no key is injected
validate_state_without_defaults(doc, t) ==
    [k \in DOMAIN doc |-> IF k = "used_images" THEN Range(doc[k]) ELSE doc[k]]

\* lines 121-129: missing keys get their defaults, the used_images list
\* becomes a set
validate_state(doc, t) ==
    [k \in DOMAIN doc \cup required_keys |->
        IF k \in DOMAIN doc
        THEN IF k = "used_images" THEN Range(doc[k]) ELSE doc[k]
        ELSE IF k \in PoolKeys THEN <<>>
             ELSE IF k = "used_images" THEN {} ELSE t]

\* load_allocation_state with the except json.JSONDecodeError clause only
load_handled_json_only == {"JSONDecodeError"}

\* The exceptions the two except clauses of load_allocation_state catch
load_handled == Exceptions

\* [raised, state]
load_allocation_state(file, t) ==
    IF exists(file)
    THEN LET e == read_exception(file) IN
         IF e = "none"
         THEN [raised |-> FALSE, state |-> validate_state(file.doc, t)]
         ELSE IF e \in load_handled
              THEN [raised |-> FALSE, state |-> new_state(t)]
              ELSE [raised |-> TRUE, state |-> <<>>]
    ELSE [raised |-> FALSE, state |-> new_state(t)]

\* state_to_save with the set dropped instead of listed
state_to_save_without_used(st, used_list, t) ==
    [k \in DOMAIN st \cup {"used_images", "last_updated"} |->
        IF k = "used_images" THEN <<>>
        ELSE IF k = "last_updated" THEN t ELSE st[k]]

\* lines 156-158: the copy written to the file; used_list is list(set), one
\* of the enumerations of the set
state_to_save(st, used_list, t) ==
    [k \in DOMAIN st \cup {"used_images", "last_updated"} |->
        IF k = "used_images" THEN used_list
        ELSE IF k = "last_updated" THEN t ELSE st[k]]

\* Which file operations of a save raise: the backup copy, the write (at
\* open, leaving the file untouched, or in the dump, leaving the opened and
\* truncated file partial) and the restoring copy.
IOOutcomes ==
    [copy : BOOLEAN, write : {"ok", "open", "dump"}, restore : BOOLEAN]

NoFailure == [copy |-> FALSE, write |-> "ok", restore |-> FALSE]

\* The outcomes that differ for a save without a restore, and for a bare write
BackupWriteOutcomes == {io \in IOOutcomes : ~io.restore}

WriteOutcomes == {io \in IOOutcomes : ~io.restore /\ ~io.copy}

\* shutil.copy2(src, dst) raises
copy_raises(src, fails) == fails \/ src.kind = "unreadable"

\* The files after save_allocation_state, and whether the except clause
\* ran: [state_file, backup_file, failed]
save_allocation_state(st, used_list, t, sf, bf, io) ==
    LET \* lines 161-164
        backup_raises == exists(sf) /\ copy_raises(sf, io.copy)
        bf1 == IF exists(sf) /\ ~backup_raises THEN sf ELSE bf
        \* lines 167-168
        write_raises == ~backup_raises /\ io.write # "ok"
        sf1 == IF backup_raises \/ io.write = "open" THEN sf
               ELSE IF io.write = "dump" THEN PartialFile
               ELSE ObjectFile(state_to_save(st, used_list, t))
        \* lines 172-181
        raised == backup_raises \/ write_raises
        sf2 == IF raised /\ exists(bf1) /\ ~copy_raises(bf1, io.restore)
               THEN bf1 ELSE sf1
    IN  [state_file |-> sf2, backup_file |-> bf1, failed |-> raised]

-----------------------------------------------------------------------------
(* image_allocator.py: the Image Inventory Scanner *)

ImageRecord(file) == [path |-> file.path, date |-> file.date]

\* The records of the files dated today, in path order.  The directory
\* listing order does not matter: the only caller shuffles the list.
RECURSIVE SortedByPath(_)
SortedByPath(S) ==
    IF S = {} THEN <<>>
    ELSE LET f == CHOOSE f \in S : \A g \in S : f.path <= g.path
         IN  <<f>> \o SortedByPath(S \ {f})

collect_todays_images(dir, day) ==
    IF ~dir.exists THEN <<>>
    ELSE SortedByPath({ImageRecord(f) : f \in {g \in dir.files : g.date = day}})

-----------------------------------------------------------------------------
(* image_allocator.py: the Pool Allocator *)

Rotate(s, k) ==
    [i \in 1..Len(s) |-> s[((i - 1 + k) % Len(s)) + 1]]

\* random.shuffle: every permutation of a list of at most MaxShuffle
\* elements; of a longer list, every rotation of every permutation of its
\* first MaxShuffle elements.
Shuffles(s) ==
    LET n == Len(s) IN
    IF n <= MaxShuffle
    THEN {[i \in 1..n |-> s[p[i]]] : p \in Perms(1..n)}
    ELSE {Rotate([i \in 1..n |-> IF i <= MaxShuffle THEN s[p[i]] ELSE s[i]], k) :
              p \in Perms(1..MaxShuffle), k \in 0..(n - 1)}

RECURSIVE Sorted(_)
Sorted(S) ==
    IF S = {} THEN <<>>
    ELSE LET x == CHOOSE x \in S : \A y \in S : x <= y
         IN  <<x>> \o Sorted(S \ {x})

Reverse(s) == [i \in 1..Len(s) |-> s[Len(s) + 1 - i]]

\* list(a_set): the elements in an order the program does not control.
\* Every order of a set of at most MaxListing elements; of a larger set,
\* the ascending and the descending order.
Listings(S) ==
    IF Cardinality(S) <= MaxListing
    THEN Perms(S)
    ELSE {Sorted(S), Reverse(Sorted(S))}

\* start_idx never advanced: every platform slices from the front
start_idx_from_front(c, i) == 0

\* start_idx of the loop of lines 254-268 when it reaches Platforms[i]
start_idx(c, i) == SumSeq([j \in 1..(i - 1) |-> c[Platforms[j]]])

\* platform_images with the slice one short: todays_images[start_idx:end_idx - 1]
platform_images_one_short(shuffled, c, i) ==
    Slice(shuffled, start_idx(c, i), start_idx(c, i) + c[Platforms[i]] - 1)

\* platform_images with the end index taken as inclusive:
\* todays_images[start_idx:end_idx + 1]
platform_images_inclusive_end(shuffled, c, i) ==
    Slice(shuffled, start_idx(c, i), start_idx(c, i) + c[Platforms[i]] + 1)

\* platform_images of Platforms[i]: todays_images[start_idx:end_idx]
platform_images(shuffled, c, i) ==
    Slice(shuffled, start_idx(c, i), start_idx(c, i) + c[Platforms[i]])

\* allocate_images_to_pools assigning the chunk to the pool instead of
\* extending the pool by it
allocate_images_to_pools_replacing(shuffled, st, N, t) ==
    LET c == get_allocation_counts(N)
        chunk(k) == LET i == CHOOSE i \in 1..Len(Platforms) : pool_key(Platforms[i]) = k
                    IN  platform_images(shuffled, c, i)
        marked == UNION {Paths(chunk(k)) : k \in PoolKeys}
    IN  [k \in DOMAIN st |->
            IF k \in PoolKeys THEN chunk(k)
            ELSE IF k = "used_images" THEN st[k] \cup marked
            ELSE IF k = "last_updated" THEN t
            ELSE st[k]]

\* allocate_images_to_pools after the shuffle, for the budget N
allocate_images_to_pools(shuffled, st, N, t) ==
    LET c == get_allocation_counts(N)
        chunk(k) == LET i == CHOOSE i \in 1..Len(Platforms) : pool_key(Platforms[i]) = k
                    IN  platform_images(shuffled, c, i)
        marked == UNION {Paths(chunk(k)) : k \in PoolKeys}
    IN  [k \in DOMAIN st |->
            IF k \in PoolKeys THEN st[k] \o chunk(k)
            ELSE IF k = "used_images" THEN st[k] \cup marked
            ELSE IF k = "last_updated" THEN t
            ELSE st[k]]

\* get_images_for_period: [selected, state]
get_images_for_period(period, count, st) ==
    IF pool_key(period) \notin DOMAIN st
    THEN [selected |-> <<>>, state |-> st]
    ELSE LET available_images == st[pool_key(period)]
             n == IF Len(available_images) < count
                  THEN Len(available_images) ELSE count
         IN  [selected |-> Slice(available_images, 0, n),
              state    |-> Put(st, pool_key(period), Drop(available_images, n))]

USED_LIMIT == 10000

USED_KEEP == 5000

cleanup_triggers(st) == Cardinality(st["used_images"]) > USED_LIMIT

\* cleanup_old_allocations; used_list is list(set), one of the enumerations
\* of the set
cleanup_old_allocations(st, used_list) ==
    IF cleanup_triggers(st)
    THEN [st EXCEPT !["used_images"] =
             Range(SubSeq(used_list, Len(used_list) - USED_KEEP + 1, Len(used_list)))]
    ELSE st

-----------------------------------------------------------------------------
(* The posters: the Pool Consumers *)

\* take_from_pool taking pool[-count:] and keeping pool[:-count]
take_from_pool_newest_first(key, st, count) ==
    LET pool == Get(st, key, <<>>)
        n    == IF Len(pool) < count THEN Len(pool) ELSE count
    IN  IF n = 0
        THEN [selected |-> <<>>, state |-> st]
        ELSE [selected |-> Drop(pool, Len(pool) - n),
              state    |-> Put(st, key, Take(pool, Len(pool) - n))]

\* take_from_pool giving up when the pool is shorter than count
take_from_pool_all_or_nothing(key, st, count) ==
    LET pool == Get(st, key, <<>>) IN
    IF Len(pool) < count \/ count = 0
    THEN [selected |-> <<>>, state |-> st]
    ELSE [selected |-> Slice(pool, 0, count),
          state    |-> Put(st, key, Drop(pool, count))]

\* The body shared by get_instagram_images, get_twitter_images,
\* get_linkedin_images and get_patreon_images: [selected, state]
take_from_pool(key, st, count) ==
    LET pool == Get(st, key, <<>>)
        n    == IF Len(pool) < count THEN Len(pool) ELSE count
    IN  IF n = 0
        THEN [selected |-> <<>>, state |-> st]
        ELSE [selected |-> Slice(pool, 0, n),
              state    |-> Put(st, key, Drop(pool, n))]

get_instagram_images(st, count) == take_from_pool("instagram_pool", st, count)

get_twitter_images(st, count) == take_from_pool("twitter_pool", st, count)

get_linkedin_images(st, count) == take_from_pool("linkedin_pool", st, count)

get_patreon_images(st, count) == take_from_pool("patreon_pool", st, count)

INSTAGRAM_COUNT == 3

TWITTER_COUNT == 3

LINKEDIN_COUNT == 2

PATREON_COUNT == 2

\* load_allocation_state of the Twitter and LinkedIn posters: the JSON value
\* of the file, {} when the file is absent or reading raises
plain_load_allocation_state(file) ==
    IF exists(file) /\ read_exception(file) \in {"none", "TypeError"}
    THEN file
    ELSE ObjectFile(<<>>)

\* keyed_load_allocation_state keeping only the poster's own pool, as its
\* fallback value does
keyed_load_own_pool_only(key, file) ==
    IF exists(file) /\ read_exception(file) = "none"
    THEN [k \in {key} |-> Get(file.doc, key, <<>>)]
    ELSE [k \in {key} |-> <<>>]

\* load_allocation_state of the Instagram and Patreon posters
keyed_load_allocation_state(key, file) ==
    IF exists(file) /\ read_exception(file) = "none"
    THEN IF key \in DOMAIN file.doc THEN file.doc ELSE Put(file.doc, key, <<>>)
    ELSE [k \in {key} |-> <<>>]

\* poster_save_allocation_state with a version check: nothing is written
\* when the file carries another last_updated than the state loaded
poster_save_unless_newer(st, sf, bf, io) ==
    IF sf.kind = "object"
           /\ Get(sf.doc, "last_updated", 0) # Get(st, "last_updated", 0)
    THEN [state_file |-> sf, backup_file |-> bf, failed |-> FALSE]
    ELSE [state_file |-> IF io.write = "ok" THEN ObjectFile(st) ELSE sf,
          backup_file |-> IF exists(sf) THEN sf ELSE bf,
          failed |-> io.write # "ok"]

\* save_allocation_state of the Instagram and Patreon posters:
\* [state_file, backup_file, failed]
poster_save_allocation_state(st, sf, bf, io) ==
    LET backup_raises == exists(sf) /\ copy_raises(sf, io.copy)
        bf1 == IF exists(sf) /\ ~backup_raises THEN sf ELSE bf
        sf1 == IF backup_raises \/ io.write = "open" THEN sf
               ELSE IF io.write = "dump" THEN PartialFile
               ELSE ObjectFile(st)
    IN  [state_file |-> sf1, backup_file |-> bf1,
         failed |-> backup_raises \/ io.write # "ok"]

\* plain_write writing nothing
plain_write_skipped(st, sf, io) == sf

\* The write of lines 245-251 of the Twitter poster (243-249 of LinkedIn)
plain_write(st, sf, io) ==
    IF io.write = "open" THEN sf
    ELSE IF io.write = "dump" THEN PartialFile
    ELSE ObjectFile(st)

\* What happens to each selected image while it is processed: os.path.exists
\* finds no file ("missing"), the processing raises ("raise"), the API call
\* returns no post id ("fail"), or none of these ("ok")
InstagramFates(images) == [1..Len(images) -> {"ok", "missing", "raise"}]

\* The loops of the Twitter and LinkedIn posters do not look for the file;
\* image_info['path'] and image_info['style'] raise KeyError on a record
\* without the key
PlainFates(images) == [1..Len(images) -> {"ok", "raise"}]

AllOk(images) == [i \in 1..Len(images) |-> "ok"]

PatreonFates(images) == [1..Len(images) -> {"ok", "missing", "raise", "fail"}]

RECURSIVE SelectSeq2(_, _, _)
\* the records of images, in order, whose index satisfies keep
SelectSeq2(images, keep, i) ==
    IF i > Len(images) THEN <<>>
    ELSE (IF keep[i] THEN <<images[i]>> ELSE <<>>) \o SelectSeq2(images, keep, i + 1)

PostRecord(image, status) == [image_path |-> image.path, status |-> status]

\* simulate_twitter_posting and simulate_linkedin_posting: one post per
\* image; the loop has no try, so the first image that raises ends the call
\* and the posts list is lost: [raised, posts]
simulate_plain_posting(images, fate) ==
    IF \E i \in 1..Len(images) : fate[i] = "raise"
    THEN [raised |-> TRUE, posts |-> <<>>]
    ELSE [raised |-> FALSE,
          posts  |-> [i \in 1..Len(images) |-> PostRecord(images[i], "posted")]]

\* simulate_instagram_posting: an image whose file is missing, or whose
\* processing raises, is skipped
simulate_instagram_posting(images, fate) ==
    LET keep == [i \in 1..Len(images) |-> fate[i] \notin {"missing", "raise"}]
        kept == SelectSeq2(images, keep, 1)
    IN  [i \in 1..Len(kept) |-> PostRecord(kept[i], "posted")]

\* post_to_patreon_with_api: as for Instagram, and an image whose API call
\* returns no post id gets a record with status failed
post_to_patreon_with_api(images, fate) ==
    LET keep == [i \in 1..Len(images) |-> fate[i] \notin {"missing", "raise"}]
        idx  == SelectSeq2([i \in 1..Len(images) |-> i], keep, 1)
    IN  [j \in 1..Len(idx) |->
            PostRecord(images[idx[j]],
                       IF fate[idx[j]] = "fail" THEN "failed" ELSE "success")]

-----------------------------------------------------------------------------
(* The main() of each script: the files and the process state it leaves.    *)
(* loaded is the state dict as the run loaded it, state the dict when the   *)
(* run ends.                                                                *)

Run(sf, bf, loaded, st, todays, sel, posts, outcome, raised) ==
    [state_file |-> sf, backup_file |-> bf, loaded |-> loaded, state |-> st,
     todays_images |-> todays, selected |-> sel, posts |-> posts,
     outcome |-> outcome, raised |-> raised]

\* image_allocator.main.  shuffled is the outcome of random.shuffle,
\* cleanup_list and used_list the two list(set) enumerations, summary_fails
\* whether writing allocation_summary.txt raises.
\* The keys the closing log loop of main reads, lines 377-379
logged_keys == {"daily_pool", "weekly_pool", "monthly_pool", "yearly_pool"}

\* main without the early return of lines 356-358
allocator_after_load_always_saving(st, sf, bf, dir, day, t, shuffled, cleanup_list, used_list, io, summary_fails) ==
    LET allocated == allocate_images_to_pools(shuffled, st,
                                              DAILY_IMAGES_PER_DAY, t)
        cleaned   == cleanup_old_allocations(allocated, cleanup_list)
        files     == save_allocation_state(cleaned, used_list, t, sf, bf, io)
        raised    == summary_fails \/ ~(logged_keys \subseteq DOMAIN cleaned)
    IN  Run(files.state_file, files.backup_file, st, cleaned, shuffled,
            <<>>, <<>>, IF files.failed THEN "save_failed" ELSE "saved", raised)

\* The part of main that follows load_allocation_state, st being the dict
\* it returned
allocator_after_load(st, sf, bf, dir, day, t, shuffled, cleanup_list, used_list, io, summary_fails) ==
    IF collect_todays_images(dir, day) = <<>>
    THEN Run(sf, bf, st, st, <<>>, <<>>, <<>>, "no_images", FALSE)
    ELSE LET allocated == allocate_images_to_pools(shuffled, st,
                                                   DAILY_IMAGES_PER_DAY, t)
             cleaned   == cleanup_old_allocations(allocated, cleanup_list)
             files     == save_allocation_state(cleaned, used_list, t, sf, bf, io)
             \* create_allocation_summary raises, or state[f'{period}_pool']
             \* of lines 377-379 raises KeyError
             raised    == summary_fails \/ ~(logged_keys \subseteq DOMAIN cleaned)
         IN  Run(files.state_file, files.backup_file, st, cleaned, shuffled,
                 <<>>, <<>>, IF files.failed THEN "save_failed" ELSE "saved", raised)

allocator_main(sf, bf, dir, day, t, shuffled, cleanup_list, used_list, io, summary_fails) ==
    LET loaded == load_allocation_state(sf, t) IN
    IF loaded.raised
    THEN Run(sf, bf, <<>>, <<>>, <<>>, <<>>, <<>>, "load_raised", TRUE)
    ELSE allocator_after_load(loaded.state, sf, bf, dir, day, t, shuffled,
                              cleanup_list, used_list, io, summary_fails)

\* daily_twitter_poster.main and daily_linkedin_poster.main
\* The part of the two mains that follows load_allocation_state, v being
\* the value it returned.  An exception of the posting is caught by the
\* except clause of main, which logs it and returns.
plain_poster_after_load(v, key, n, sf, bf, fate, io) ==
    IF v.kind # "object" \/ DOMAIN v.doc = {}
    THEN Run(sf, bf, v.doc, v.doc, <<>>, <<>>, <<>>, "no_state", FALSE)
    ELSE LET r == take_from_pool(key, v.doc, n) IN
         IF r.selected = <<>>
         THEN Run(sf, bf, v.doc, r.state, <<>>, <<>>, <<>>, "no_images", FALSE)
         ELSE LET posting == simulate_plain_posting(r.selected, fate) IN
              IF posting.raised
              THEN Run(sf, bf, v.doc, r.state, <<>>, r.selected, <<>>,
                       "aborted", FALSE)
              ELSE Run(plain_write(r.state, sf, io), bf, v.doc, r.state, <<>>,
                       r.selected, posting.posts,
                       IF io.write = "ok" THEN "saved" ELSE "save_failed", FALSE)

plain_poster_main(key, n, sf, bf, fate, io) ==
    plain_poster_after_load(plain_load_allocation_state(sf), key, n, sf, bf, fate, io)

twitter_main(sf, bf, fate, io) ==
    plain_poster_main("twitter_pool", TWITTER_COUNT, sf, bf, fate, io)

linkedin_main(sf, bf, fate, io) ==
    plain_poster_main("linkedin_pool", LINKEDIN_COUNT, sf, bf, fate, io)

\* after_posting without the test of posts: the state is saved whatever
\* the posting returned
after_posting_always_saving(sf, bf, st, r, posts, io) ==
    LET files == poster_save_allocation_state(r.state, sf, bf, io)
    IN  Run(files.state_file, files.backup_file, st, r.state, <<>>,
            r.selected, posts,
            IF files.failed THEN "save_failed" ELSE "saved", FALSE)

\* The part of daily_instagram_poster.main and daily_patreon_poster.main
\* that follows the posting, posts being the list the posting returned
after_posting(sf, bf, st, r, posts, io) ==
    IF posts # <<>>
    THEN LET files == poster_save_allocation_state(r.state, sf, bf, io)
         IN  Run(files.state_file, files.backup_file, st, r.state, <<>>,
                 r.selected, posts,
                 IF files.failed THEN "save_failed" ELSE "saved", FALSE)
    ELSE Run(sf, bf, st, r.state, <<>>, r.selected, posts, "no_posts", FALSE)

\* The part of daily_instagram_poster.main that follows
\* load_allocation_state, st being the dict it returned
instagram_after_load(st, sf, bf, fate, io) ==
    LET r == get_instagram_images(st, INSTAGRAM_COUNT)
    IN  IF r.selected = <<>>
        THEN Run(sf, bf, st, r.state, <<>>, <<>>, <<>>, "no_images", FALSE)
        ELSE after_posting(sf, bf, st, r,
                           simulate_instagram_posting(r.selected, fate), io)

\* daily_instagram_poster.main
instagram_main(sf, bf, fate, io) ==
    instagram_after_load(keyed_load_allocation_state("instagram_pool", sf),
                         sf, bf, fate, io)

\* daily_patreon_poster.main; api_ok is whether get_patreon_analytics
\* returns a result
patreon_after_load(st, sf, bf, fate, io) ==
    LET r == get_patreon_images(st, PATREON_COUNT)
    IN  IF r.selected = <<>>
        THEN Run(sf, bf, st, r.state, <<>>, <<>>, <<>>, "no_images", FALSE)
        ELSE after_posting(sf, bf, st, r,
                           post_to_patreon_with_api(r.selected, fate), io)

patreon_main(sf, bf, api_ok, fate, io) ==
    IF ~api_ok
    THEN Run(sf, bf, <<>>, <<>>, <<>>, <<>>, <<>>, "no_api", FALSE)
    ELSE patreon_after_load(keyed_load_allocation_state("patreon_pool", sf),
                            sf, bf, fate, io)

-----------------------------------------------------------------------------
(* The system: the scripts run one at a time, each run to completion *)

\* What the environment of a run makes fail: the file operations of the
\* save, the processing of each selected image, the writing of
\* allocation_summary.txt
Faults(io, fate, summary_fails) ==
    [io |-> io, fate |-> fate, summary_fails |-> summary_fails]

NoFaults == Faults(NoFailure, <<>>, FALSE)

\* No script is part way through a run
NoneRunning == <<>>

NoRun == [op |-> "none", outcome |-> "none", raised |-> FALSE,
          loaded |-> <<>>, posts |-> <<>>, faults |-> NoFaults]

EmptyDir == [exists |-> FALSE, files |-> {}, made |-> 0]

\* The images/ tree after a day on which DAILY_IMAGES_PER_DAY images were
\* generated, and the files the first Allocator run leaves from it
Day0 == 0

SeedDir ==
    [exists |-> TRUE,
     files |-> {[path |-> p, date |-> Day0] : p \in 1..DAILY_IMAGES_PER_DAY},
     made |-> 0]

SeedRun ==
    allocator_main(AbsentFile, AbsentFile, SeedDir, Day0, 0,
                   collect_todays_images(SeedDir, Day0), <<>>,
                   [i \in 1..DAILY_IMAGES_PER_DAY |-> i], NoFailure, FALSE)

\* The variables no script of the system touches
Idle ==
    /\ budget = DAILY_IMAGES_PER_DAY
    /\ counts = get_allocation_counts(DAILY_IMAGES_PER_DAY)
    /\ requested = 0
    /\ trace = <<>>

Init ==
    /\ today = 1
    /\ now = 1
    /\ running = NoneRunning
    /\ \/ images_dir = EmptyDir /\ state_file = AbsentFile
       \/ images_dir = SeedDir /\ state_file = SeedRun.state_file
    /\ backup_file = AbsentFile
    /\ state = <<>>
    /\ todays_images = <<>>
    /\ selected = <<>>
    /\ last = NoRun
    /\ Idle

\* The effect of one run of a script on the files and the process state
Effect(op, r, faults) ==
    /\ state_file' = r.state_file
    /\ backup_file' = r.backup_file
    /\ state' = r.state
    /\ todays_images' = r.todays_images
    /\ selected' = r.selected
    /\ last' = [op |-> op, outcome |-> r.outcome, raised |-> r.raised,
                loaded |-> r.loaded, posts |-> r.posts, faults |-> faults]
    /\ UNCHANGED <<today, images_dir, budget, counts, requested>>

\* One run, after which the clock has moved on
Ran(op, r, faults) ==
    /\ now' = now + 1
    /\ Effect(op, r, faults)

\* The image generator writes one more file, named after the current date
GenerateImage ==
    /\ images_dir.made < MaxImages
    /\ images_dir' = [exists |-> TRUE,
                      files  |-> images_dir.files \cup
                                   {[path |-> DAILY_IMAGES_PER_DAY + images_dir.made + 1,
                                     date |-> today]},
                      made   |-> images_dir.made + 1]
    /\ UNCHANGED <<running, today, now, state_file, backup_file, state, todays_images,
                   selected, budget, counts, requested, last, trace>>

NextDay ==
    /\ today < MaxDay
    /\ today' = today + 1
    /\ UNCHANGED <<running, now, images_dir, state_file, backup_file, state, todays_images,
                   selected, budget, counts, requested, last, trace>>

AllocatorRun ==
    LET loaded == load_allocation_state(state_file, now)
        found  == collect_todays_images(images_dir, today)
        used   == IF loaded.raised THEN {} ELSE loaded.state["used_images"]
    IN  \E shuffled \in Shuffles(found), io \in IOOutcomes, summary_fails \in BOOLEAN :
        \E used_list \in Listings(used \cup Paths(Take(shuffled, DAILY_IMAGES_PER_DAY))) :
        \E cleanup_list \in (IF Len(used_list) > USED_LIMIT
                             THEN Listings(Range(used_list)) ELSE {<<>>}) :
            Ran("allocator",
                allocator_main(state_file, backup_file, images_dir, today, now,
                               shuffled, cleanup_list, used_list, io, summary_fails),
                Faults(io, <<>>, summary_fails))

InstagramRun ==
    \E fate \in InstagramFates(Take(Get(state_file.doc, "instagram_pool", <<>>),
                                    INSTAGRAM_COUNT)),
       io \in BackupWriteOutcomes :
        Ran("instagram", instagram_main(state_file, backup_file, fate, io),
            Faults(io, fate, FALSE))

\* The records a plain poster would select from the file as it is
PlainSelection(key, n) ==
    IF state_file.kind = "object"
    THEN Take(Get(state_file.doc, key, <<>>), n) ELSE <<>>

TwitterRun(fates, ios) ==
    \E fate \in fates, io \in ios :
        Ran("twitter", twitter_main(state_file, backup_file, fate, io),
            Faults(io, fate, FALSE))

LinkedinRun ==
    \E fate \in PlainFates(PlainSelection("linkedin_pool", LINKEDIN_COUNT)),
       io \in WriteOutcomes :
        Ran("linkedin", linkedin_main(state_file, backup_file, fate, io),
            Faults(io, fate, FALSE))

PatreonRun ==
    \E fate \in PatreonFates(Take(Get(state_file.doc, "patreon_pool", <<>>),
                                  PATREON_COUNT)),
       io \in BackupWriteOutcomes, api_ok \in BOOLEAN :
        Ran("patreon", patreon_main(state_file, backup_file, api_ok, fate, io),
            Faults(io, fate, FALSE))

AllocatorMain == now < MaxTime /\ AllocatorRun /\ UNCHANGED <<trace, running>>

InstagramMain == now < MaxTime /\ InstagramRun /\ UNCHANGED <<trace, running>>

TwitterMain ==
    /\ now < MaxTime
    /\ TwitterRun(PlainFates(PlainSelection("twitter_pool", TWITTER_COUNT)),
                  WriteOutcomes)
    /\ UNCHANGED <<trace, running>>

LinkedinMain == now < MaxTime /\ LinkedinRun /\ UNCHANGED <<trace, running>>

PatreonMain == now < MaxTime /\ PatreonRun /\ UNCHANGED <<trace, running>>

Next ==
    \/ GenerateImage
    \/ NextDay
    \/ AllocatorMain
    \/ InstagramMain
    \/ TwitterMain
    \/ LinkedinMain
    \/ PatreonMain

Spec == Init /\ [][Next]_vars

\* The records a run appended to the pool key k
Appended(k) == SubSeq(state[k], Len(last.loaded[k]) + 1, Len(state[k]))

AllocatorRan == last.op = "allocator" /\ last.outcome \in {"saved", "save_failed"}

\* C1: no path that is in used_images when an Allocator run starts is
\* appended to a pool by that run, and every path the run appends is in
\* used_images when it ends.
C1_NoDoubleAllocation ==
    AllocatorRan =>
        \A k \in PoolKeys :
            /\ Paths(Appended(k)) \cap last.loaded["used_images"] = {}
            /\ Paths(Appended(k)) \subseteq state["used_images"]

\* The four pools of a document, one after the other
AllPools(doc) ==
    Get(doc, "instagram_pool", <<>>) \o Get(doc, "twitter_pool", <<>>)
        \o Get(doc, "linkedin_pool", <<>>) \o Get(doc, "patreon_pool", <<>>)

\* C2: in every persisted state each image path occurs in at most one pool
\* and at most once in it.
C2_PathInOnePoolOnce ==
    state_file.kind = "object" =>
        LET all == AllPools(state_file.doc) IN
        \A i, j \in 1..Len(all) : all[i].path = all[j].path => i = j

PosterOps == {"instagram", "twitter", "linkedin", "patreon"}

\* A poster ran and its consumer removed at least one record
PosterConsumed == last.op \in PosterOps /\ selected # <<>>

\* C11: whenever a run overwrites an existing state file, the backup file
\* holds, right after the overwrite, the content the state file had
\* immediately before it.
C11_BackupBeforeOverwrite ==
    [][(exists(state_file) /\ state_file' # state_file)
           => backup_file' = state_file]_vars

\* C13: after a run whose write of the state file failed, the backup has
\* been copied back over the state file whenever there is a backup and the
\* restoring copy itself does not fail.  (No save lets an exception out: a
\* run reaches its outcome whether or not the restore worked.)
C13_RestoreOnFailedWrite ==
    (/\ last.op \in PosterOps \cup {"allocator"}
     /\ last.outcome = "save_failed"
     /\ last.faults.io.write # "ok") =>
        ((exists(backup_file) /\ ~copy_raises(backup_file, last.faults.io.restore))
             => state_file = backup_file)

\* C16: an Allocator run that found images of today, saved the state and
\* wrote the summary returns normally.
C16_AllocatorReturnsNormally ==
    (/\ last.op = "allocator"
     /\ last.outcome = "saved"
     /\ todays_images # <<>>
     /\ ~last.faults.summary_fails) =>
        ~last.raised

Failing(i) == last.faults.fate[i] # "ok"

PostedPaths == {last.posts[k].image_path : k \in 1..Len(last.posts)}

\* C17: in every poster run in which the processing of a selected image
\* fails or raises, every later selected image that does not fail itself
\* is still processed, and the run goes on to write the updated state.
C17_FailureDoesNotAbortBatch ==
    (PosterConsumed /\ \E i \in 1..Len(selected) : Failing(i)) =>
        /\ \A i, j \in 1..Len(selected) :
               (i < j /\ Failing(i) /\ ~Failing(j))
                   => selected[j].path \in PostedPaths
        /\ last.outcome \in {"saved", "save_failed"}

\* The pool of the poster that ran last
OwnPool == pool_key(last.op)

\* C18: after every poster run in which the consumer removed at least one
\* record (and no file operation of the save was made to fail), the pool in
\* the state file equals the truncated pool in memory.
C18_ConsumptionPersisted ==
    (PosterConsumed /\ last.faults.io = NoFailure) =>
        /\ state_file.kind = "object"
        /\ OwnPool \in DOMAIN state_file.doc
        /\ state_file.doc[OwnPool] = state[OwnPool]

\* C22: every path held in a pool of a persisted state is a member of
\* used_images of that state.
C22_PooledPathsAreUsed ==
    state_file.kind = "object" =>
        Paths(AllPools(state_file.doc))
            \subseteq Range(Get(state_file.doc, "used_images", <<>>))

\* C24: after every run that wrote the state file with a changed pool or
\* used_images, the last_updated of the file is the time of that run.
C24_LastUpdatedTracksWrites ==
    (/\ last.op \in PosterOps \cup {"allocator"}
     /\ last.outcome = "saved") =>
        /\ state_file.kind = "object"
        /\ "last_updated" \in DOMAIN state_file.doc
        /\ state_file.doc["last_updated"] = now - 1

-----------------------------------------------------------------------------
(* get_allocation_counts as a function of the daily budget *)

\* The variables a specification of one function leaves alone
Parked ==
    /\ today = 1
    /\ now = 1
    /\ running = NoneRunning
    /\ images_dir = EmptyDir
    /\ state_file = AbsentFile
    /\ backup_file = AbsentFile

InitCounts ==
    /\ Parked
    /\ state = <<>>
    /\ todays_images = <<>>
    /\ selected = <<>>
    /\ budget \in 0..MaxBudget
    /\ counts = <<>>
    /\ requested = 0
    /\ last = NoRun
    /\ trace = <<>>

ComputeCounts ==
    /\ last.op = "none"
    /\ counts' = get_allocation_counts(budget)
    /\ last' = [NoRun EXCEPT !.op = "get_allocation_counts"]
    /\ UNCHANGED <<running, today, now, images_dir, state_file, backup_file, state,
                   todays_images, selected, budget, requested, trace>>

NextCounts == ComputeCounts

SpecCounts == InitCounts /\ [][NextCounts]_vars

CountsComputed == last.op = "get_allocation_counts"

\* C3: for every budget N >= 4 the four counts are the floors of 30, 30, 20
\* and 20 percent of N with the shortfall N - sum added to one platform,
\* they sum to N and none is negative; for N = 10 they are 3, 3, 2, 2.
C3_RatioSum ==
    (CountsComputed /\ budget >= 4) =>
        LET floors == [instagram |-> (budget * 3) \div 10,
                       twitter   |-> (budget * 3) \div 10,
                       linkedin  |-> (budget * 2) \div 10,
                       patreon   |-> (budget * 2) \div 10]
            shortfall == budget - (floors.instagram + floors.twitter
                                     + floors.linkedin + floors.patreon)
        IN  /\ \E p \in PlatformSet :
                   \A q \in PlatformSet :
                       counts[q] = floors[q] + (IF q = p THEN shortfall ELSE 0)
            /\ counts.instagram + counts.twitter + counts.linkedin + counts.patreon
                   = budget
            /\ \A q \in PlatformSet : counts[q] >= 0
            /\ budget = 10 =>
                   counts = [instagram |-> 3, twitter |-> 3,
                             linkedin |-> 2, patreon |-> 2]

\* The counts of a budget whose floors leave a shortfall have been computed
C3_Witness ==
    /\ CountsComputed
    /\ budget >= 4
    /\ total_of(floor_counts(budget)) < budget
    /\ total_of(counts) = budget

-----------------------------------------------------------------------------
(* The five consumer functions on a state with arbitrary pool lengths *)

\* A pool of m records of the platform Platforms[i]
SamplePool(i, m) == [j \in 1..m |-> [path |-> 100 * i + j, date |-> Day0]]

SampleState(m) ==
    [instagram_pool |-> SamplePool(1, m[1]), twitter_pool |-> SamplePool(2, m[2]),
     linkedin_pool |-> SamplePool(3, m[3]), patreon_pool |-> SamplePool(4, m[4]),
     used_images |-> UNION {Paths(SamplePool(i, m[i])) : i \in 1..4},
     last_updated |-> 0]

InitConsume ==
    /\ Parked
    /\ \E m \in [1..4 -> 0..MaxPool] : state = SampleState(m)
    /\ todays_images = <<>>
    /\ selected = <<>>
    /\ budget = DAILY_IMAGES_PER_DAY
    /\ counts = get_allocation_counts(DAILY_IMAGES_PER_DAY)
    /\ requested \in 0..(MaxPool + 1)
    /\ last = NoRun
    /\ trace = <<>>

\* One call of a consumer, r being what it returns
Consume(op, r) ==
    /\ last.op = "none"
    /\ state' = r.state
    /\ selected' = r.selected
    /\ last' = [NoRun EXCEPT !.op = op, !.loaded = state]
    /\ UNCHANGED <<running, today, now, images_dir, state_file, backup_file,
                   todays_images, budget, counts, requested, trace>>

ConsumeInstagram ==
    Consume("get_instagram_images", get_instagram_images(state, requested))

ConsumeTwitter ==
    Consume("get_twitter_images", get_twitter_images(state, requested))

ConsumeLinkedin ==
    Consume("get_linkedin_images", get_linkedin_images(state, requested))

ConsumePatreon ==
    Consume("get_patreon_images", get_patreon_images(state, requested))

ConsumeForPeriod ==
    \E period \in PlatformSet :
        Consume(period, get_images_for_period(period, requested, state))

NextConsume ==
    \/ ConsumeInstagram
    \/ ConsumeTwitter
    \/ ConsumeLinkedin
    \/ ConsumePatreon
    \/ ConsumeForPeriod

SpecConsume == InitConsume /\ [][NextConsume]_vars

\* The pool a consumer call took from: the poster functions by their name,
\* get_images_for_period by its period argument
ConsumedKey ==
    CASE last.op = "get_instagram_images" -> "instagram_pool"
      [] last.op = "get_twitter_images"   -> "twitter_pool"
      [] last.op = "get_linkedin_images"  -> "linkedin_pool"
      [] last.op = "get_patreon_images"   -> "patreon_pool"
      [] OTHER                            -> pool_key(last.op)

Consumed == last.op # "none"

PoolBefore == last.loaded[ConsumedKey]

\* C4: consuming k >= 1 images from a pool of m >= k records returns the
\* first k records in order and leaves the records k+1..m in order.
C4_FifoOrder ==
    (Consumed /\ requested >= 1 /\ Len(PoolBefore) >= requested) =>
        /\ Len(selected) = requested
        /\ \A i \in 1..requested : selected[i] = PoolBefore[i]
        /\ Len(state[ConsumedKey]) = Len(PoolBefore) - requested
        /\ \A i \in 1..Len(state[ConsumedKey]) :
               state[ConsumedKey][i] = PoolBefore[requested + i]

\* A poster's consumer took 2 of 4 records
C4_Witness ==
    /\ last.op = "get_twitter_images"
    /\ requested = 2
    /\ Len(PoolBefore) = 4
    /\ Len(selected) = 2
    /\ Len(state["twitter_pool"]) = 2

\* C5: requesting more images than the pool holds returns all of them in
\* pool order, leaves the pool empty and raises nothing.
C5_GracefulUnderflow ==
    (Consumed /\ Len(PoolBefore) < requested) =>
        /\ Len(selected) = Len(PoolBefore)
        /\ \A i \in 1..Len(PoolBefore) : selected[i] = PoolBefore[i]
        /\ Len(state[ConsumedKey]) = 0
        /\ ~last.raised

\* A consumer was asked for 3 records of a pool of 2
C5_Witness ==
    /\ last.op = "get_patreon_images"
    /\ requested = 3
    /\ Len(PoolBefore) = 2
    /\ Len(selected) = 2
    /\ Len(state["patreon_pool"]) = 0

-----------------------------------------------------------------------------
(* The Allocator's store: save_allocation_state and load_allocation_state   *)
(* on arbitrary states and files                                            *)

Rec(p) == [path |-> p, date |-> Day0]

StoreStates ==
    [instagram_pool : {<<>>, <<Rec(1)>>, <<Rec(2), Rec(1)>>},
     twitter_pool   : {<<>>, <<Rec(3)>>},
     linkedin_pool  : {<<>>, <<Rec(4)>>},
     patreon_pool   : {<<>>, <<Rec(5), Rec(6)>>},
     used_images    : {{}, {1, 2}, 1..6},
     last_updated   : {0}]

FullDoc ==
    [instagram_pool |-> <<Rec(7)>>, twitter_pool |-> <<Rec(8)>>,
     linkedin_pool |-> <<>>, patreon_pool |-> <<Rec(9)>>,
     used_images |-> <<9, 7, 8>>, last_updated |-> 0]

\* The document an earlier save left in the backup file
OldDoc == state_to_save(new_state(0), <<>>, 0)

\* The documents with any of the six keys missing
StoreDocs == {[k \in K |-> FullDoc[k]] : K \in SUBSET required_keys}

StoreFiles ==
    {AbsentFile,
     [kind |-> "unreadable", doc |-> <<>>],
     [kind |-> "invalid_json", doc |-> <<>>],
     [kind |-> "non_object", doc |-> <<>>]}
        \cup {ObjectFile(d) : d \in StoreDocs}

InitStore ==
    /\ today = 1
    /\ now = 1
    /\ running = NoneRunning
    /\ images_dir = EmptyDir
    /\ state_file \in StoreFiles
    /\ backup_file \in {AbsentFile, ObjectFile(OldDoc)}
    /\ state \in StoreStates
    /\ todays_images = <<>>
    /\ selected = <<>>
    /\ last = NoRun
    /\ Idle

StoreSave ==
    /\ last.op = "none"
    /\ \E io \in IOOutcomes, used_list \in Listings(state["used_images"]) :
           LET files == save_allocation_state(state, used_list, now,
                                              state_file, backup_file, io)
           IN  /\ state_file' = files.state_file
               /\ backup_file' = files.backup_file
               /\ last' = [NoRun EXCEPT
                              !.op = "save",
                              !.outcome = IF files.failed THEN "save_failed" ELSE "saved",
                              !.loaded = state,
                              !.faults = Faults(io, <<>>, FALSE)]
    /\ now' = now + 1
    /\ UNCHANGED <<running, today, images_dir, state, todays_images, selected, budget,
                   counts, requested, trace>>

\* load_allocation_state, after a save (last.outcome tells how the save
\* ended and last.loaded what it saved) or on the initial file
StoreLoad ==
    /\ last.op \in {"none", "save"}
    /\ LET r == load_allocation_state(state_file, now) IN
           /\ state' = r.state
           /\ last' = [last EXCEPT !.op = "load", !.raised = r.raised]
    /\ now' = now + 1
    /\ UNCHANGED <<running, today, images_dir, state_file, backup_file, todays_images,
                   selected, budget, counts, requested, trace>>

NextStore == StoreSave \/ StoreLoad

SpecStore == InitStore /\ [][NextStore]_vars

ReloadedAfterSave == last.op = "load" /\ last.outcome = "saved"

\* C6: a state saved without failure and loaded again has the same keys,
\* the same four pools and the same used_images set; only last_updated may
\* differ.
C6_IdempotentReload ==
    ReloadedAfterSave =>
        /\ ~last.raised
        /\ DOMAIN state = DOMAIN last.loaded
        /\ \A k \in DOMAIN last.loaded \ {"last_updated"} : state[k] = last.loaded[k]

\* A state with two queued records and a non-empty used_images set came
\* back from the file with a newer timestamp
C6_Witness ==
    /\ ReloadedAfterSave
    /\ Len(state["instagram_pool"]) = 2
    /\ state["used_images"] = {1, 2}
    /\ state["last_updated"] # last.loaded["last_updated"]

\* C12: when the backup copy of the Allocator's save is made to fail and
\* the write itself is not, the state file holds the state that was saved.
C12_BackupFailureDoesNotBlockSave ==
    (/\ last.op = "save"
     /\ last.faults.io.copy
     /\ last.faults.io.write = "ok") =>
        /\ state_file.kind = "object"
        /\ PoolKeys \cup {"used_images"} \subseteq DOMAIN state_file.doc
        /\ \A k \in PoolKeys : state_file.doc[k] = state[k]
        /\ Range(state_file.doc["used_images"]) = state["used_images"]

FreshState(st) ==
    /\ DOMAIN st = required_keys
    /\ \A k \in PoolKeys : st[k] = <<>>
    /\ st["used_images"] = {}

\* C10: load_allocation_state never raises, and returns a fresh empty state
\* when the file is absent, is not valid JSON or cannot be read.
C10_LoadNeverRaises ==
    last.op = "load" =>
        /\ ~last.raised
        /\ state_file.kind \in {"absent", "invalid_json", "unreadable"}
               => FreshState(state)

\* An unreadable file was loaded as the fresh state
C10_Witness ==
    /\ last.op = "load"
    /\ last.outcome = "none"
    /\ state_file.kind = "unreadable"
    /\ FreshState(state)

\* C25: loading a state file that holds a JSON object returns a state with
\* the four pool keys and used_images, a missing pool being the empty list
\* and a missing used_images the empty set, every key of the document kept
\* with its value and used_images turned from the stored list into a set.
\* (The documents are those the program writes, with any keys missing.)
C25_ShapeUpgrade ==
    (last.op = "load" /\ state_file.kind = "object") =>
        LET doc == state_file.doc IN
        /\ PoolKeys \cup {"used_images"} \subseteq DOMAIN state
        /\ DOMAIN doc \subseteq DOMAIN state
        /\ \A k \in PoolKeys \ DOMAIN doc : state[k] = <<>>
        /\ "used_images" \notin DOMAIN doc => state["used_images"] = {}
        /\ \A k \in DOMAIN doc \ {"used_images"} : state[k] = doc[k]
        /\ "used_images" \in DOMAIN doc
               => state["used_images"] = Range(doc["used_images"])

\* A document without instagram_pool and used_images was loaded: both got
\* their defaults and the stored twitter_pool was kept
C25_Witness ==
    /\ last.op = "load"
    /\ last.outcome = "none"
    /\ state_file.kind = "object"
    /\ DOMAIN state_file.doc = required_keys \ {"instagram_pool", "used_images"}
    /\ state["instagram_pool"] = <<>>
    /\ state["used_images"] = {}
    /\ state["twitter_pool"] = FullDoc["twitter_pool"]
    /\ Len(state["twitter_pool"]) = 1

\* The state file holds the state that the save was given
HoldsSaved(file, st) ==
    /\ file.kind = "object"
    /\ PoolKeys \cup {"used_images"} \subseteq DOMAIN file.doc
    /\ \A k \in PoolKeys : file.doc[k] = st[k]
    /\ Range(file.doc["used_images"]) = st["used_images"]

\* C30: after a save of the Allocator that failed, the state file holds
\* the content it had before the call or the new state (or what a write
\* cut short left of it), never another, older document.
C30_FailedSaveNotBackwards ==
    [][(last'.op = "save" /\ last'.outcome = "save_failed") =>
           \/ state_file' = state_file
           \/ HoldsSaved(state_file', state)
           \/ state_file' = PartialFile]_vars

-----------------------------------------------------------------------------
(* allocate_images_to_pools on lists of every length up to MaxToday *)

\* A state that already queues the records of paths 1 and 2 of today
RerunState ==
    [new_state(0) EXCEPT !["instagram_pool"] = <<[path |-> 1, date |-> 1],
                                               [path |-> 2, date |-> 1]>>,
                         !["used_images"] = {1, 2}]

AllocateStates == {new_state(0), SampleState(<<1, 2, 0, 1>>), RerunState}

InitAllocate ==
    /\ Parked
    /\ state \in AllocateStates
    /\ \E n \in 0..MaxToday :
           todays_images = [i \in 1..n |-> [path |-> i, date |-> today]]
    /\ selected = <<>>
    /\ last = NoRun
    /\ Idle

Allocate ==
    /\ last.op = "none"
    /\ \E shuffled \in Shuffles(todays_images) :
           /\ todays_images' = shuffled
           /\ state' = allocate_images_to_pools(shuffled, state,
                                                DAILY_IMAGES_PER_DAY, now)
    /\ last' = [NoRun EXCEPT !.op = "allocate", !.loaded = state]
    /\ UNCHANGED <<running, today, now, images_dir, state_file, backup_file, selected,
                   budget, counts, requested, trace>>

NextAllocate == Allocate

SpecAllocate == InitAllocate /\ [][NextAllocate]_vars

Allocated == last.op = "allocate"

Grew(platform) == Len(state[pool_key(platform)]) - Len(last.loaded[pool_key(platform)])

\* C7: with exactly 10 images, none of them in used_images, one allocate
\* call lengthens the instagram, twitter, linkedin and patreon pools by 3,
\* 3, 2 and 2 records and used_images by 10 paths.
C7_NormalDay ==
    (/\ Allocated
     /\ Len(todays_images) = 10
     /\ Paths(todays_images) \cap last.loaded["used_images"] = {}) =>
        /\ Grew("instagram") = 3
        /\ Grew("twitter") = 3
        /\ Grew("linkedin") = 2
        /\ Grew("patreon") = 2
        /\ Cardinality(state["used_images"])
               = Cardinality(last.loaded["used_images"]) + 10

\* Ten unused images were allocated on top of pools that were not empty
C7_Witness ==
    /\ Allocated
    /\ Len(todays_images) = 10
    /\ Len(last.loaded["twitter_pool"]) = 2
    /\ Len(state["twitter_pool"]) = 5
    /\ Cardinality(state["used_images"]) = 14

\* C8: with 4 images and the budget 10, allocate appends 4 records in all,
\* 3 to instagram and 1 to twitter and none to linkedin and patreon; on a
\* short day a platform receives a record only if every earlier platform
\* received its full configured count.
C8_ShortDay ==
    /\ (Allocated /\ Len(todays_images) = 4) =>
           /\ Grew("instagram") + Grew("twitter") + Grew("linkedin") + Grew("patreon") = 4
           /\ Grew("instagram") = 3
           /\ Grew("twitter") = 1
           /\ Grew("linkedin") = 0
           /\ Grew("patreon") = 0
           /\ Appended("instagram_pool") \o Appended("twitter_pool") = todays_images
    /\ (Allocated /\ Len(todays_images) < DAILY_IMAGES_PER_DAY) =>
           \A i \in 1..Len(Platforms) :
               Grew(Platforms[i]) > 0 =>
                   \A j \in 1..(i - 1) :
                       Grew(Platforms[j])
                           = get_allocation_counts(DAILY_IMAGES_PER_DAY)[Platforms[j]]

\* Four images were allocated and the last of the shuffled list went to twitter
C8_Witness ==
    /\ Allocated
    /\ Len(todays_images) = 4
    /\ last.loaded = new_state(0)
    /\ state["twitter_pool"] = <<todays_images[4]>>
    /\ state["linkedin_pool"] = <<>>

\* C19: after allocate, every pool is the pool before the call followed by
\* the platform's chunk of the shuffled list (positions 1-3, 4-6, 7-8 and
\* 9-10 for the budget 10), so the queued records keep their positions.
C19_AppendOnly ==
    Allocated =>
        /\ state["instagram_pool"]
               = last.loaded["instagram_pool"] \o Slice(todays_images, 0, 3)
        /\ state["twitter_pool"]
               = last.loaded["twitter_pool"] \o Slice(todays_images, 3, 6)
        /\ state["linkedin_pool"]
               = last.loaded["linkedin_pool"] \o Slice(todays_images, 6, 8)
        /\ state["patreon_pool"]
               = last.loaded["patreon_pool"] \o Slice(todays_images, 8, 10)
        /\ \A k \in PoolKeys :
               \A i \in 1..Len(last.loaded[k]) : state[k][i] = last.loaded[k][i]

\* Seven images were appended behind the two records instagram already queued
C19_Witness ==
    /\ Allocated
    /\ last.loaded = RerunState
    /\ Len(todays_images) = 7
    /\ Len(state["instagram_pool"]) = 5
    /\ SubSeq(state["instagram_pool"], 1, 2) = RerunState["instagram_pool"]
    /\ Len(state["linkedin_pool"]) = 1

\* The records one allocate call appended, pool after pool
AllAppended ==
    Appended("instagram_pool") \o Appended("twitter_pool")
        \o Appended("linkedin_pool") \o Appended("patreon_pool")

\* C20: one allocate call appends min(len(todays_images), 10) records in
\* all, each of them an element of todays_images, and none twice.
C20_NothingFabricated ==
    Allocated =>
        /\ Len(AllAppended) = (IF Len(todays_images) < DAILY_IMAGES_PER_DAY
                               THEN Len(todays_images) ELSE DAILY_IMAGES_PER_DAY)
        /\ Range(AllAppended) \subseteq Range(todays_images)
        /\ \A i, j \in 1..Len(AllAppended) :
               AllAppended[i] = AllAppended[j] => i = j

\* Eleven images were found and ten of them appended
C20_Witness ==
    /\ Allocated
    /\ Len(todays_images) = 11
    /\ Len(AllAppended) = 10
    /\ Cardinality(Range(AllAppended)) = 10

-----------------------------------------------------------------------------
(* Consumer drain: the Twitter poster run three times on a pool of 5 *)

DrainRuns == 3

DrainRecords == <<Rec(4), Rec(5), Rec(6), Rec(11), Rec(12)>>

\* The document of the seed allocation with 5 records queued for Twitter
DrainDoc(q) ==
    [SeedRun.state_file.doc EXCEPT
        !["twitter_pool"] = q,
        !["used_images"] = @ \o <<11, 12>>]

\* trace starts with the pool as persisted at the start
InitDrain ==
    /\ today = 1
    /\ now = 1
    /\ running = NoneRunning
    /\ images_dir = SeedDir
    /\ \E q \in Shuffles(DrainRecords) :
           /\ state_file = ObjectFile(DrainDoc(q))
           /\ trace = <<q>>
    /\ backup_file = AbsentFile
    /\ state = <<>>
    /\ todays_images = <<>>
    /\ selected = <<>>
    /\ last = NoRun
    /\ budget = DAILY_IMAGES_PER_DAY
    /\ counts = get_allocation_counts(DAILY_IMAGES_PER_DAY)
    /\ requested = 0

\* One run of the Twitter poster whose write succeeds
DrainStep ==
    /\ Len(trace) < 1 + DrainRuns
    /\ TwitterRun({AllOk(PlainSelection("twitter_pool", TWITTER_COUNT))}, {NoFailure})
    /\ trace' = Append(trace, selected')
    /\ UNCHANGED running

NextDrain == DrainStep

SpecDrain == InitDrain /\ [][NextDrain]_vars

\* C9: from a persisted Twitter pool of 5 records, three successive runs of
\* count 3 return the first 3 records, the remaining 2, and the empty
\* list, leaving pools of length 2, 0 and 0, and none raises.
C9_ConsumerDrain ==
    LET q    == trace[1]
        left == Len(state_file.doc["twitter_pool"])
    IN  /\ Len(q) = 5
        /\ ~last.raised
        /\ Len(trace) = 1 => left = 5
        /\ Len(trace) >= 2 => trace[2] = SubSeq(q, 1, 3)
        /\ Len(trace) = 2 => left = 2 /\ state_file.doc["twitter_pool"] = SubSeq(q, 4, 5)
        /\ Len(trace) >= 3 => trace[3] = SubSeq(q, 4, 5)
        /\ Len(trace) = 3 => left = 0
        /\ Len(trace) >= 4 => trace[4] = <<>>
        /\ Len(trace) = 4 => left = 0

\* The third run found the pool empty
C9_Witness ==
    /\ Len(trace) = 1 + DrainRuns
    /\ last.op = "twitter"
    /\ last.outcome = "no_images"
    /\ Len(trace[2]) = 3
    /\ Len(trace[3]) = 2
    /\ selected = <<>>

-----------------------------------------------------------------------------
(* One run of one poster on state files of every shape *)

\* The pool lengths of the sample documents
PosterPoolLengths == {0, 1, MaxPool}

\* The documents the Allocator writes, and those documents without one key
PosterDocs ==
    LET full == {state_to_save(SampleState(m), Sorted(SampleState(m)["used_images"]), 0) :
                     m \in [1..4 -> PosterPoolLengths]}
        one  == state_to_save(SampleState(<<MaxPool, MaxPool, MaxPool, MaxPool>>),
                              <<>>, 0)
    IN  full \cup {[k \in DOMAIN one \ {gone} |-> one[k]] : gone \in DOMAIN one}

PosterFiles ==
    {AbsentFile,
     [kind |-> "unreadable", doc |-> <<>>],
     [kind |-> "invalid_json", doc |-> <<>>],
     [kind |-> "non_object", doc |-> <<>>],
     ObjectFile(<<>>)}
        \cup {ObjectFile(d) : d \in PosterDocs}

\* trace keeps the state file as it was before the run
InitPoster ==
    /\ today = 1
    /\ now = 1
    /\ running = NoneRunning
    /\ images_dir = SeedDir
    /\ state_file \in PosterFiles
    /\ backup_file \in {AbsentFile, ObjectFile(OldDoc)}
    /\ state = <<>>
    /\ todays_images = <<>>
    /\ selected = <<>>
    /\ last = NoRun
    /\ budget = DAILY_IMAGES_PER_DAY
    /\ counts = get_allocation_counts(DAILY_IMAGES_PER_DAY)
    /\ requested = 0
    /\ trace = <<state_file>>

PosterInstagram == last.op = "none" /\ InstagramRun /\ UNCHANGED <<trace, running>>

PosterTwitter ==
    /\ last.op = "none"
    /\ TwitterRun(PlainFates(PlainSelection("twitter_pool", TWITTER_COUNT)),
                  WriteOutcomes)
    /\ UNCHANGED <<trace, running>>

PosterLinkedin == last.op = "none" /\ LinkedinRun /\ UNCHANGED <<trace, running>>

PosterPatreon == last.op = "none" /\ PatreonRun /\ UNCHANGED <<trace, running>>

NextPoster ==
    \/ PosterInstagram
    \/ PosterTwitter
    \/ PosterLinkedin
    \/ PosterPatreon

SpecPoster == InitPoster /\ [][NextPoster]_vars

FileBefore == trace[1]

\* The state file has the key k exactly if it had it before the run, and
\* holds the same value under it
Kept(k) ==
    /\ k \in DOMAIN state_file.doc <=> k \in DOMAIN FileBefore.doc
    /\ (k \in DOMAIN state_file.doc /\ k \in DOMAIN FileBefore.doc)
           => state_file.doc[k] = FileBefore.doc[k]

RemovedFromFile ==
    IF /\ FileBefore.kind = "object" /\ state_file.kind = "object"
       /\ OwnPool \in DOMAIN FileBefore.doc /\ OwnPool \in DOMAIN state_file.doc
    THEN Take(FileBefore.doc[OwnPool],
              Len(FileBefore.doc[OwnPool]) - Len(state_file.doc[OwnPool]))
    ELSE <<>>

\* C27: every record an Instagram or Patreon run removes from the pool in
\* the state file has a post record in the list the run produced.
C27_NoneDroppedUnposted ==
    last.op \in {"instagram", "patreon"} =>
        \A i \in 1..Len(RemovedFromFile) :
            RemovedFromFile[i].path \in PostedPaths

\* C29: a poster run that produces no post record leaves the state file
\* as it was, whether the file is missing, unreadable or corrupted, the
\* pool empty, the Patreon API check failed or every selected image
\* skipped.
C29_NoPostNoWrite ==
    (last.op \in PosterOps /\ last.posts = <<>>) => state_file = FileBefore

\* The Patreon poster selected two records, skipped both and left the file
\* with its pool as it was
C29_Witness ==
    /\ last.op = "patreon"
    /\ last.outcome = "no_posts"
    /\ Len(selected) = PATREON_COUNT
    /\ last.posts = <<>>
    /\ state["patreon_pool"] # FileBefore.doc["patreon_pool"]
    /\ state_file = FileBefore

-----------------------------------------------------------------------------
(* An Allocator run and a Poster run side by side.  A script reads the     *)
(* state file once, in its load, and writes it once, in its save; nothing  *)
(* else of a run is visible to the other.  A run is therefore two steps,   *)
(* and the steps of the two runs interleave in every order.                *)

\* images/ with DAILY_IMAGES_PER_DAY more files, generated today
OverlapDir ==
    [exists |-> TRUE,
     files |-> SeedDir.files \cup
                   {[path |-> DAILY_IMAGES_PER_DAY + p, date |-> 1] :
                        p \in 1..DAILY_IMAGES_PER_DAY},
     made |-> DAILY_IMAGES_PER_DAY]

Waiting == [pc |-> "start", state |-> <<>>, loaded_at |-> 0, saved_at |-> 0]

InitOverlap ==
    /\ today = 1
    /\ now = 1
    /\ images_dir = OverlapDir
    /\ state_file = SeedRun.state_file
    /\ backup_file = AbsentFile
    /\ state = <<>>
    /\ todays_images = <<>>
    /\ selected = <<>>
    /\ last = NoRun
    /\ Idle
    /\ \E p \in PosterOps : running = [q \in {"allocator", p} |-> Waiting]

\* What the load_allocation_state of the script q returns
loaded_by(q, file, t) ==
    CASE q = "allocator"               -> load_allocation_state(file, t).state
      [] q \in {"twitter", "linkedin"} -> plain_load_allocation_state(file)
      [] OTHER                         -> keyed_load_allocation_state(pool_key(q), file)

\* Every selected image is posted
OkFate == [i \in 1..INSTAGRAM_COUNT |-> "ok"]

\* The rest of the main of the script q after its load returned st, on the
\* files as they are by then, when nothing fails
finished_by(q, st, sf, bf, dir, day, t, shuffled, used_list) ==
    CASE q = "allocator" ->
             allocator_after_load(st, sf, bf, dir, day, t, shuffled, <<>>,
                                  used_list, NoFailure, FALSE)
      [] q = "twitter"   ->
             plain_poster_after_load(st, "twitter_pool", TWITTER_COUNT, sf, bf,
                                     OkFate, NoFailure)
      [] q = "linkedin"  ->
             plain_poster_after_load(st, "linkedin_pool", LINKEDIN_COUNT, sf, bf,
                                     OkFate, NoFailure)
      [] q = "instagram" -> instagram_after_load(st, sf, bf, OkFate, NoFailure)
      [] q = "patreon"   -> patreon_after_load(st, sf, bf, OkFate, NoFailure)

OverlapLoad ==
    \E q \in DOMAIN running :
        /\ running[q].pc = "start"
        /\ running' = [running EXCEPT ![q] =
                           [pc |-> "loaded",
                            state |-> loaded_by(q, state_file, now),
                            loaded_at |-> now, saved_at |-> 0]]
        /\ now' = now + 1
        /\ UNCHANGED <<today, images_dir, state_file, backup_file, state,
                       todays_images, selected, budget, counts, requested, last,
                       trace>>

OverlapFinish ==
    \E q \in DOMAIN running :
        /\ running[q].pc = "loaded"
        /\ LET found == collect_todays_images(images_dir, today)
               st    == running[q].state
           IN  \E shuffled \in (IF q = "allocator" THEN Shuffles(found) ELSE {<<>>}) :
               \E used_list \in (IF q = "allocator"
                                  THEN Listings(st["used_images"] \cup
                                           Paths(Take(shuffled, DAILY_IMAGES_PER_DAY)))
                                  ELSE {<<>>}) :
                   LET r == finished_by(q, st, state_file, backup_file, images_dir,
                                        today, now, shuffled, used_list)
                   IN  /\ Ran(q, r, NoFaults)
                       /\ running' = [running EXCEPT ![q] =
                                          [@ EXCEPT !.pc = "done", !.state = r.state,
                                                    !.saved_at = now]]
        /\ UNCHANGED trace

NextOverlap == OverlapLoad \/ OverlapFinish

SpecOverlap == InitOverlap /\ [][NextOverlap]_vars

\* Both runs are over and both loaded before either saved
Overlapped ==
    /\ \A q \in DOMAIN running : running[q].pc = "done"
    /\ \A q, r \in DOMAIN running : running[q].loaded_at < running[r].saved_at

ThePoster == CHOOSE q \in DOMAIN running : q # "allocator"

SavedLast(q) == \A r \in DOMAIN running : running[r].saved_at <= running[q].saved_at

TodaysPaths == Paths(collect_todays_images(images_dir, today))

\* The document both runs loaded
SeedDoc == SeedRun.state_file.doc

\* C14: when an Allocator run and a Poster run both load before either
\* saves, the state file ends as the document of the run that saved last:
\* if that is the Poster, no allocation of the Allocator run is in a pool
\* or in used_images; if that is the Allocator, the Poster's pool still
\* starts with all the records it had, the posted ones included.
C14_LostUpdate ==
    Overlapped =>
        /\ state_file.kind = "object"
        /\ SavedLast(ThePoster) =>
               /\ state_file.doc = running[ThePoster].state
               /\ Paths(AllPools(state_file.doc)) \cap TodaysPaths = {}
               /\ Range(state_file.doc["used_images"]) \cap TodaysPaths = {}
        /\ SavedLast("allocator") =>
               /\ \A k \in PoolKeys :
                      state_file.doc[k] = running["allocator"].state[k]
               /\ Take(state_file.doc[pool_key(ThePoster)],
                       Len(SeedDoc[pool_key(ThePoster)]))
                      = SeedDoc[pool_key(ThePoster)]

\* The Twitter poster saved its truncated pool first, the Allocator saved
\* last, and the three posted records are queued again in front of the
\* new chunk
C14_Witness ==
    /\ Overlapped
    /\ ThePoster = "twitter"
    /\ SavedLast("allocator")
    /\ running["twitter"].state["twitter_pool"] = <<>>
    /\ Len(state_file.doc["twitter_pool"]) = 6
    /\ SubSeq(state_file.doc["twitter_pool"], 1, 3) = SeedDoc["twitter_pool"]

-----------------------------------------------------------------------------
(* The Allocator when used_images is about to pass USED_LIMIT.  Paths are  *)
(* numbered in the order of their allocation: the state file lists the     *)
(* paths 1..n as used, and the images of today are the paths n+1..n+k.     *)

Ascending(lo, hi) == [i \in 1..(hi - lo + 1) |-> lo + i - 1]

\* list(a_set) of the set 1..m: ascending, descending, and the ascending
\* order started at a quarter, a half and three quarters of the way
ListingsUpTo(m) ==
    {Ascending(1, m), Reverse(Ascending(1, m))}
        \cup {Rotate(Ascending(1, m), (m * q) \div 4) : q \in 1..3}

\* The document after n allocations of which the last three are queued
CleanupDoc(n) ==
    [instagram_pool |-> <<Rec(n - 2), Rec(n - 1)>>, twitter_pool |-> <<Rec(n)>>,
     linkedin_pool |-> <<>>, patreon_pool |-> <<>>,
     used_images |-> Ascending(1, n), last_updated |-> 0]

CleanupDir(n, k) ==
    [exists |-> TRUE,
     files |-> {[path |-> n + p, date |-> 1] : p \in 1..k},
     made |-> k]

InitCleanup ==
    /\ today = 1
    /\ now = 1
    /\ running = NoneRunning
    /\ \E n \in (USED_LIMIT - MaxSlack)..USED_LIMIT,
          k \in {DAILY_IMAGES_PER_DAY \div 2, DAILY_IMAGES_PER_DAY} :
           /\ state_file = ObjectFile(CleanupDoc(n))
           /\ images_dir = CleanupDir(n, k)
    /\ backup_file = AbsentFile
    /\ state = <<>>
    /\ todays_images = <<>>
    /\ selected = <<>>
    /\ last = NoRun
    /\ Idle

\* One Allocator run in which nothing fails.  list(set) gives the cleanup
\* one of the listings; the save lists what the cleanup kept.
CleanupRun ==
    /\ last.op = "none"
    /\ LET found == collect_todays_images(images_dir, today)
           m     == Len(state_file.doc["used_images"]) + Len(found)
       IN  \E cleanup_list \in ListingsUpTo(m) :
               LET used_list == IF m > USED_LIMIT
                                THEN SubSeq(cleanup_list, m - USED_KEEP + 1, m)
                                ELSE cleanup_list
               IN  Ran("allocator",
                       allocator_main(state_file, backup_file, images_dir, today, now,
                                      found, cleanup_list, used_list, NoFailure, FALSE),
                       NoFaults)
    /\ UNCHANGED <<trace, running>>

NextCleanup == CleanupRun

SpecCleanup == InitCleanup /\ [][NextCleanup]_vars

\* The number of paths ever allocated when the run ends
EverAllocated ==
    Cardinality(last.loaded["used_images"] \cup Paths(todays_images))

\* C21: after an Allocator run used_images holds at most USED_LIMIT paths,
\* and when the cleanup triggered it holds the USED_KEEP most recently
\* allocated ones.
C21_UsedImagesCap ==
    (last.op = "allocator" /\ last.outcome = "saved") =>
        /\ Cardinality(state["used_images"]) <= USED_LIMIT
        /\ Len(state_file.doc["used_images"]) <= USED_LIMIT
        /\ EverAllocated > USED_LIMIT =>
               state["used_images"]
                   = (EverAllocated - USED_KEEP + 1)..EverAllocated

-----------------------------------------------------------------------------
(* One Allocator run on images/ trees with and without images of today *)

\* images/ missing, without files, with files of an earlier day only, with
\* files of today only, and with both
ScanDirs ==
    {EmptyDir} \cup
    {[exists |-> TRUE, files |-> old \cup new, made |-> 0] :
        old \in {{}, {[path |-> 1, date |-> Day0], [path |-> 2, date |-> Day0]}},
        new \in {{}, {[path |-> 3, date |-> 1]}}}

\* trace keeps the state file and the backup file as they were before the run
InitScan ==
    /\ today = 1
    /\ now = 1
    /\ running = NoneRunning
    /\ images_dir \in ScanDirs
    /\ state_file \in StoreFiles
    /\ backup_file \in {AbsentFile, ObjectFile(OldDoc)}
    /\ state = <<>>
    /\ todays_images = <<>>
    /\ selected = <<>>
    /\ last = NoRun
    /\ budget = DAILY_IMAGES_PER_DAY
    /\ counts = get_allocation_counts(DAILY_IMAGES_PER_DAY)
    /\ requested = 0
    /\ trace = <<state_file, backup_file>>

ScanRun ==
    /\ last.op = "none"
    /\ LET loaded == load_allocation_state(state_file, now)
           found  == collect_todays_images(images_dir, today)
           used   == IF loaded.raised THEN {} ELSE loaded.state["used_images"]
       IN  \E io \in IOOutcomes, summary_fails \in BOOLEAN :
               Ran("allocator",
                   allocator_main(state_file, backup_file, images_dir, today, now,
                                  found, <<>>, Sorted(used \cup Paths(found)),
                                  io, summary_fails),
                   Faults(io, <<>>, summary_fails))
    /\ UNCHANGED <<trace, running>>

NextScan == ScanRun

SpecScan == InitScan /\ [][NextScan]_vars

\* C23: an Allocator run on which the scanner finds no image of today ends
\* without an exception and without saving: the state file and its .backup
\* are what they were before the run.
C23_NoImagesNoWrite ==
    (/\ last.op = "allocator"
     /\ collect_todays_images(images_dir, today) = <<>>) =>
        /\ ~last.raised
        /\ last.outcome = "no_images"
        /\ state_file = trace[1]
        /\ backup_file = trace[2]

\* Such a run on a missing images/ directory and a corrupted state file
C23_Witness ==
    /\ last.op = "allocator"
    /\ ~images_dir.exists
    /\ state_file.kind = "invalid_json"
    /\ backup_file = ObjectFile(OldDoc)
    /\ last.outcome = "no_images"

-----------------------------------------------------------------------------
(* The four posters run again and again after a single allocation, no      *)
(* file operation failing.  trace holds the paths of the image files that  *)
(* are missing from disk; they stay missing.                               *)

MissingFiles == trace

\* The outcome of each selected image: skipped when its file is missing
FateOf(images) ==
    [i \in 1..Len(images) |->
        IF images[i].path \in MissingFiles THEN "missing" ELSE "ok"]

InitRepeat ==
    /\ today = 1
    /\ now = 1
    /\ running = NoneRunning
    /\ images_dir = SeedDir
    /\ \E n \in {1, MaxPool} :
         LET m == [i \in 1..4 |-> n] IN
         LET st == SampleState(m) IN
         /\ state_file = ObjectFile(state_to_save(st, Sorted(st["used_images"]), 0))
         /\ trace \in {{}, Paths(Take(st["instagram_pool"], INSTAGRAM_COUNT)),
                       Paths(Take(st["patreon_pool"], 1))}
    /\ backup_file = AbsentFile
    /\ state = <<>>
    /\ todays_images = <<>>
    /\ selected = <<>>
    /\ last = NoRun
    /\ budget = DAILY_IMAGES_PER_DAY
    /\ counts = get_allocation_counts(DAILY_IMAGES_PER_DAY)
    /\ requested = 0

RepeatInstagram ==
    /\ LET fate == FateOf(PlainSelection("instagram_pool", INSTAGRAM_COUNT))
       IN  Effect("instagram", instagram_main(state_file, backup_file, fate, NoFailure),
                  Faults(NoFailure, fate, FALSE))
    /\ UNCHANGED <<now, trace, running>>

RepeatTwitter ==
    /\ LET fate == AllOk(PlainSelection("twitter_pool", TWITTER_COUNT))
       IN  Effect("twitter", twitter_main(state_file, backup_file, fate, NoFailure),
                  Faults(NoFailure, fate, FALSE))
    /\ UNCHANGED <<now, trace, running>>

RepeatLinkedin ==
    /\ LET fate == AllOk(PlainSelection("linkedin_pool", LINKEDIN_COUNT))
       IN  Effect("linkedin", linkedin_main(state_file, backup_file, fate, NoFailure),
                  Faults(NoFailure, fate, FALSE))
    /\ UNCHANGED <<now, trace, running>>

RepeatPatreon ==
    /\ LET fate == FateOf(PlainSelection("patreon_pool", PATREON_COUNT))
       IN  Effect("patreon", patreon_main(state_file, backup_file, TRUE, fate, NoFailure),
                  Faults(NoFailure, fate, FALSE))
    /\ UNCHANGED <<now, trace, running>>

NextRepeat ==
    \/ RepeatInstagram
    \/ RepeatTwitter
    \/ RepeatLinkedin
    \/ RepeatPatreon

\* Every poster is run again and again
SpecRepeat ==
    /\ InitRepeat
    /\ [][NextRepeat]_vars
    /\ WF_vars(RepeatInstagram)
    /\ WF_vars(RepeatTwitter)
    /\ WF_vars(RepeatLinkedin)
    /\ WF_vars(RepeatPatreon)

Drained(k) == Get(state_file.doc, k, <<>>) = <<>>

\* C26: when no further allocation happens and every poster is run again
\* and again, each persisted pool eventually becomes empty, whatever the
\* outcome of the posting attempts.
C26_EventualDrain == <>(\A k \in PoolKeys : Drained(k))

-----------------------------------------------------------------------------
(* The posters of two different platforms side by side after a single      *)
(* allocation, each run a load step and a finish step as above, nothing    *)
(* failing.  A poster whose run is over may be started again.  trace lists *)
(* the posts made so far, requested counts the runs started again.         *)

InitTwoPosters ==
    /\ today = 1
    /\ now = 1
    /\ images_dir = SeedDir
    /\ state_file = SeedRun.state_file
    /\ backup_file = AbsentFile
    /\ state = <<>>
    /\ todays_images = <<>>
    /\ selected = <<>>
    /\ last = NoRun
    /\ budget = DAILY_IMAGES_PER_DAY
    /\ counts = get_allocation_counts(DAILY_IMAGES_PER_DAY)
    /\ requested = 0
    /\ trace = <<>>
    /\ \E p, q \in PosterOps :
          /\ p # q
          /\ running = [x \in {p, q} |-> Waiting]

\* The posts of a run, each with the platform that made it
PostsOf(q, posts) ==
    [i \in 1..Len(posts) |-> [platform |-> q, path |-> posts[i].image_path]]

PosterFinish ==
    \E q \in DOMAIN running :
        /\ running[q].pc = "loaded"
        /\ LET r == finished_by(q, running[q].state, state_file, backup_file,
                                images_dir, today, now, <<>>, <<>>)
           IN  /\ Ran(q, r, NoFaults)
               /\ trace' = trace \o PostsOf(q, r.posts)
               /\ running' = [running EXCEPT ![q] =
                                  [@ EXCEPT !.pc = "done", !.state = r.state,
                                            !.saved_at = now]]

\* The script q is started once more
PosterRestart ==
    \E q \in DOMAIN running :
        /\ running[q].pc = "done"
        /\ requested < MaxRestarts
        /\ requested' = requested + 1
        /\ running' = [running EXCEPT ![q] = Waiting]
        /\ UNCHANGED <<today, now, images_dir, state_file, backup_file, state,
                       todays_images, selected, budget, counts, last, trace>>

NextTwoPosters == OverlapLoad \/ PosterFinish \/ PosterRestart

SpecTwoPosters == InitTwoPosters /\ [][NextTwoPosters]_vars

\* C28: whatever the interleaving of the loads and saves of the posters of
\* two platforms, no record is posted twice by its platform.
C28_PostedAtMostOnce ==
    \A i, j \in 1..Len(trace) : trace[i] = trace[j] => i = j

=============================================================================
